---- MODULE Spec2Model ----
(***************************************************************************)
(* The yt-dlp platform handler of YukkiMusic (package platforms).          *)
(*                                                                         *)
(* The model follows the latest revision of the handler,                   *)
(* src/internal/platforms/ytdlp.go lines 294-576: Download with the        *)
(* direct-stream attempt first, the live gate, the cache lookup with video *)
(* validation and eviction, and the download-mode invocation of yt-dlp.    *)
(* Several callers run concurrently, each on its own task, against one     *)
(* shared downloads directory.  The external programs (yt-dlp, ffprobe,    *)
(* the HTTP server probed with HEAD) are nondeterministic.                 *)
(*                                                                         *)
(* Spec is the model of the concurrent tasks.  GetTracks (the revision in  *)
(* src/unnamed/part_001 that accepts live descriptors), IsValid and        *)
(* getDirectStreamURL are also studied one call at a time, over all their  *)
(* inputs, in SpecTracks, SpecValid and SpecDirect.                        *)
(***************************************************************************)
EXTENDS Integers, Sequences, FiniteSets, TLC

VARIABLES
    pc,         \* pc[r]: where task r stands in GetTracks / Download
    track,      \* track[r]: the *state.Track handed to Download
    ctx,        \* ctx[r]: the caller's context.Context, "live" or "cancelled"
    procs,      \* the external yt-dlp processes that are running
    files,      \* the downloads directory: file name -> [content, owner]
    dirExists,  \* whether the downloads directory exists
    found,      \* found[r]: the path checkDownloadedFile returned to r
    result,     \* result[r]: the (string, error) pair Download returned
    h,          \* h[r]: how often r entered each phase of Download, and
                \* whether its context was done when Download was called
    dlOut,      \* dlOut[r]: what the download-mode process reported to r
    retContent, \* retContent[r]: content of the returned file on return
    cacheValid, \* cacheValid[r]: a valid video artifact awaited r, untouched
    prior,      \* prior[r]: artifact an earlier call fetched for r's key
    fetched,    \* paths returned through download mode and intact since
    seen,       \* seen[r]: owners of the artifacts r found, removed, wrote
    calls,      \* number of GetTracks calls made so far
    op,         \* the function under study, "" while the tasks run
    arg,        \* its arguments and what its environment answers
    ret         \* what it returned

\* The variables of the tasks.
taskVars == <<pc, track, ctx, procs, files, dirExists, found, result, h,
              dlOut, retContent, cacheValid, prior, fetched, seen, calls>>

\* The variables of a function studied on its own.
callVars == <<op, arg, ret>>

vars == <<pc, track, ctx, procs, files, dirExists, found, result, h, dlOut,
          retContent, cacheValid, prior, fetched, seen, calls, op, arg, ret>>

(***************************************************************************)
(* Bounds of the model.                                                    *)
(***************************************************************************)
\* Calls (GetTracks followed by Download) made over the two tasks together.
MaxCalls == 2
\* Lines of standard output of one yt-dlp -g run.
MaxLines == 2

\* The concurrent tasks: the claims speak of one request, of two requests
\* one after the other and of two requests at the same time.
Requests == {"r1", "r2"}

\* Track identifiers the resolver may assign.
TrackIDs == {"abc", "xyz"}

Tracks == [ID : TrackIDs, Video : BOOLEAN, IsLive : BOOLEAN]

NoTrack == [ID |-> "", Video |-> FALSE, IsLive |-> FALSE]

(***************************************************************************)
(* Strings.                                                                *)
(***************************************************************************)
HasPrefix(s, p) == Len(s) >= Len(p) /\ SubSeq(s, 1, Len(p)) = p

HasSuffix(s, p) ==
    Len(s) >= Len(p) /\ SubSeq(s, Len(s) - Len(p) + 1, Len(s)) = p

\* strings.Contains
Contains(s, sub) ==
    \E i \in 0..(Len(s) - Len(sub)) : SubSeq(s, i + 1, i + Len(sub)) = sub

IsSpace(c) == c \in {" ", "\t", "\r", "\n"}

RECURSIVE TrimLeft(_)
TrimLeft(s) ==
    IF Len(s) > 0 /\ IsSpace(SubSeq(s, 1, 1))
    THEN TrimLeft(SubSeq(s, 2, Len(s)))
    ELSE s

RECURSIVE TrimRight(_)
TrimRight(s) ==
    IF Len(s) > 0 /\ IsSpace(SubSeq(s, Len(s), Len(s)))
    THEN TrimRight(SubSeq(s, 1, Len(s) - 1))
    ELSE s

\* strings.TrimSpace
TrimSpace(s) == TrimRight(TrimLeft(s))

(***************************************************************************)
(* Cache key and output path.                                              *)
(***************************************************************************)
\* A key that forgets the media kind.
cacheKeyNoKind(t) == t.ID

cacheKey(t) == IF t.Video THEN t.ID \o "_video" ELSE t.ID \o "_audio"

\* filepath.Join("downloads", key+".%(ext)s")
outTpl(key) == "downloads/" \o key \o ".%(ext)s"

ExtField == "%(ext)s"

\* yt-dlp fills the %(ext)s field of the output template.
expandTpl(tpl, ext) ==
    IF HasSuffix(tpl, ExtField)
    THEN SubSeq(tpl, 1, Len(tpl) - Len(ExtField)) \o ext
    ELSE tpl

\* --merge-output-format mp4 for video, --audio-format opus for audio.
extOf(t) == IF t.Video THEN "mp4" ELSE "opus"

outPath(t) == expandTpl(outTpl(cacheKey(t)), extOf(t))

\* The identity under which an artifact was written.
ownerOf(t) == [ID |-> t.ID, Video |-> t.Video]

\* A path the resolver may print although no file of that name exists.
GhostPath == "downloads/ghost.tmp"

(***************************************************************************)
(* The downloads directory.                                                *)
(***************************************************************************)
\* Content of a file: still being written, complete with a decodable
\* video stream, or complete without one.
Contents == {"partial", "video", "novideo"}

Exists(fs, p) == p \in DOMAIN fs

Remove(fs, p) == [q \in (DOMAIN fs) \ {p} |-> fs[q]]

Put(fs, p, rec) == [q \in (DOMAIN fs) \cup {p} |-> IF q = p THEN rec ELSE fs[q]]

\* checkDownloadedFile(key): the files of the downloads directory whose
\* name begins with "<key>."; the caller takes the first match.
checkDownloadedFile(fs, key) ==
    {p \in DOMAIN fs : HasPrefix(p, "downloads/" \o key \o ".")}

\* os.Stat(path) succeeds.
osStatAlways(fs, p) == TRUE

osStat(fs, p) == Exists(fs, p)

\* ffprobe never reports a video stream.
isValidVideoFileNever(fs, p, guess) == FALSE

\* isValidVideoFile(path): ffprobe prints the dimensions of the first video
\* stream.  On a file that is still being written its answer depends on how
\* much has been written: guess.
isValidVideoFile(fs, p, guess) ==
    /\ Exists(fs, p)
    /\ \/ fs[p].content = "video"
       \/ fs[p].content = "partial" /\ guess

(***************************************************************************)
(* Direct-stream resolution: yt-dlp -g and the HEAD probes.                *)
(***************************************************************************)
\* Lines yt-dlp -g may print: two addresses (one ending in a carriage
\* return) and a line that is no address.
CandLines == {"http://cdn/1", "https://cdn/2\r", "WARNING: no formats"}

ProbeURLs == {TrimSpace(l) : l \in {c \in CandLines : HasPrefix(c, "http")}}

\* What a HEAD request may end in: 0 stands for a transport error (no
\* response, timeout, cancelled context), the others are status codes.
ProbeOutcomes == {0, 200, 399, 400}

RECURSIVE JoinLines(_)
JoinLines(ls) ==
    IF ls = <<>> THEN "" ELSE Head(ls) \o "\n" \o JoinLines(Tail(ls))

LineSeqs == UNION {[1..n -> CandLines] : n \in 0..MaxLines}

\* Standard output of one yt-dlp -g run.
Outputs == {JoinLines(ls) : ls \in LineSeqs}

HasNewline(s) == \E i \in 1..Len(s) : SubSeq(s, i, i) = "\n"

FirstNewline(s) ==
    CHOOSE i \in 1..Len(s) :
        /\ SubSeq(s, i, i) = "\n"
        /\ \A j \in 1..(i - 1) : SubSeq(s, j, j) # "\n"

\* strings.Split(s, "\n")
RECURSIVE SplitLines(_)
SplitLines(s) ==
    IF ~HasNewline(s)
    THEN <<s>>
    ELSE LET i == FirstNewline(s)
         IN  <<SubSeq(s, 1, i - 1)>> \o SplitLines(SubSeq(s, i + 1, Len(s)))

\* A probe that lets status 400 pass.
validateStreamURLAbove400(st, u) == st[u] # 0 /\ ~(st[u] > 400)

\* validateStreamURL returns nil: a response came and its status is < 400.
validateStreamURL(st, u) == st[u] # 0 /\ ~(st[u] >= 400)

\* return "", err when cmd.Run failed: nothing was probed.
NoStream ==
    [ok |-> FALSE, url |-> "", probed |-> <<>>, err |-> "yt-dlp -g failed"]

\* The loop of getDirectStreamURL over the lines, from line i on; probed
\* collects the addresses a HEAD request was sent to, in order.
RECURSIVE scanLines(_, _, _, _)
scanLines(lines, i, st, probed) ==
    IF i > Len(lines)
    THEN [ok |-> FALSE, url |-> "", probed |-> probed,
          err |-> "no valid direct stream url"]
    ELSE LET u == TrimSpace(lines[i])
         IN  IF HasPrefix(u, "http")
             THEN IF validateStreamURL(st, u)
                  THEN [ok |-> TRUE, url |-> u, probed |-> Append(probed, u),
                        err |-> "nil"]
                  ELSE scanLines(lines, i + 1, st, Append(probed, u))
             ELSE scanLines(lines, i + 1, st, probed)

\* getDirectStreamURL once cmd.Run has returned: ran says whether the
\* process ran to its end and exitOk whether it exited with status 0.
getDirectStreamURL(ran, exitOk, out, st) ==
    IF ~(ran /\ exitOk)
    THEN NoStream
    ELSE scanLines(SplitLines(out), 1, st, <<>>)

(***************************************************************************)
(* State of one task.                                                      *)
(***************************************************************************)
H0 == [ctxdone |-> 0, direct |-> 0, nostream |-> 0, lookup |-> 0,
       validate |-> 0, invalid |-> 0, evict |-> 0, rmfail |-> 0, mkdir |-> 0,
       dl |-> 0]

\* The zero values of (string, error).
NoResult == [loc |-> "", err |-> "nil"]

NoDlOut == [exit |-> "none", printed |-> "", stat |-> FALSE]

\* return path, nil
Ok(loc) == [loc |-> loc, err |-> "nil"]

\* A failure that hands the location back together with the error.
FailKeepLoc(e) == [loc |-> "downloads/", err |-> e]

\* return "", err
Fail(e) == [loc |-> "", err |-> e]

Set(f, r, v) == [f EXCEPT ![r] = v]

Bump(r, field) == [h EXCEPT ![r][field] = @ + 1]

Proc(r, mode, writing) == [req |-> r, mode |-> mode, writing |-> writing]

Running(r, mode) == \E p \in procs : p.req = r /\ p.mode = mode

\* exec.CommandContext(ctx, ...) in getDirectStreamURL and Download;
\* plain exec.Command in extractMetadata.
boundToContext(mode) == mode \in {"direct", "download"}

\* The files checkDownloadedFile would return for r's key.
KeyFiles(fs, t) == checkDownloadedFile(fs, cacheKey(t))

\* Task q has removed or overwritten path p: the other tasks' view of an
\* untouched artifact ends.
CacheValidAfter(q, p) ==
    [r \in Requests |->
        cacheValid[r] /\ (r = q \/ ~HasPrefix(p, "downloads/" \o cacheKey(track[r]) \o "."))]

PriorAfter(q, p) ==
    [r \in Requests |-> IF r # q /\ prior[r] = p THEN "" ELSE prior[r]]

Owners(fs, ps) == {fs[p].owner : p \in ps \cap DOMAIN fs}

\* No task has been given a request yet.
TasksIdle ==
    /\ pc = [r \in Requests |-> "idle"]
    /\ track = [r \in Requests |-> NoTrack]
    /\ ctx = [r \in Requests |-> "live"]
    /\ procs = {}
    /\ files = <<>>
    /\ dirExists = FALSE
    /\ found = [r \in Requests |-> ""]
    /\ result = [r \in Requests |-> NoResult]
    /\ h = [r \in Requests |-> H0]
    /\ dlOut = [r \in Requests |-> NoDlOut]
    /\ retContent = [r \in Requests |-> "none"]
    /\ cacheValid = [r \in Requests |-> FALSE]
    /\ prior = [r \in Requests |-> ""]
    /\ fetched = {}
    /\ seen = [r \in Requests |-> {}]
    /\ calls = 0

\* A call that has not returned.
Pending == [done |-> FALSE]

\* No function is studied on its own.
NoCall == op = "" /\ arg = <<>> /\ ret = Pending

Init == TasksIdle /\ NoCall

(***************************************************************************)
(* GetTracks: the metadata-mode invocation.                                *)
(***************************************************************************)
\* GetTracks calls extractMetadata, which starts yt-dlp -j with
\* exec.Command: the process starts whatever the caller's context says.
GetTracksCall(r) ==
    /\ pc[r] = "idle"
    /\ calls < MaxCalls
    /\ calls' = calls + 1
    /\ pc' = Set(pc, r, "meta_wait")
    /\ procs' = procs \cup {Proc(r, "meta", FALSE)}
    /\ UNCHANGED <<track, ctx, files, dirExists, found, result, h, dlOut,
                   retContent, cacheValid, prior, fetched, seen>>
    /\ UNCHANGED callVars

\* yt-dlp -j exits; on success GetTracks hands back a Track.
ExtractMetadataExit(r) ==
    /\ pc[r] = "meta_wait"
    /\ procs' = procs \ {Proc(r, "meta", FALSE)}
    /\ \E exitOk \in BOOLEAN, t \in Tracks :
          IF exitOk
          THEN /\ track' = Set(track, r, t)
               /\ pc' = Set(pc, r, "ready")
          ELSE /\ track' = track
               /\ pc' = Set(pc, r, "tracks_err")
    /\ UNCHANGED <<ctx, files, dirExists, found, result, h, dlOut,
                   retContent, cacheValid, prior, fetched, seen, calls>>
    /\ UNCHANGED callVars

(***************************************************************************)
(* Download.                                                               *)
(***************************************************************************)
\* What one run of getDirectStreamURL can come to when yt-dlp -g ran to
\* its end, over every exit status, output and set of probe outcomes.
DirectOutcomes ==
    {getDirectStreamURL(TRUE, e, out, st) :
        e \in BOOLEAN, out \in Outputs, st \in [ProbeURLs -> ProbeOutcomes]}

\* What a valid cached video artifact for t looks like at the call.
ValidCached(fs, t) ==
    /\ t.Video
    /\ KeyFiles(fs, t) # {}
    /\ \A p \in KeyFiles(fs, t) : fs[p].content = "video"

\* The artifact an earlier call fetched for this very track and kind.
PriorFetched(fs, t) ==
    LET ps == {p \in fetched \cap KeyFiles(fs, t) : fs[p].owner = ownerOf(t)}
    IN  IF ps = {} \/ t.IsLive THEN "" ELSE CHOOSE p \in ps : TRUE

\* Download that looks into the cache before anything else.
DownloadCallCacheFirst(r) ==
    /\ pc[r] = "ready"
    /\ pc' = Set(pc, r, "lookup")
    /\ cacheValid' = Set(cacheValid, r, ValidCached(files, track[r]))
    /\ prior' = Set(prior, r, PriorFetched(files, track[r]))
    /\ UNCHANGED <<track, ctx, procs, files, dirExists, found, result, h,
                   dlOut, retContent, fetched, seen, calls>>
    /\ UNCHANGED callVars

\* Download is called: its first statement starts yt-dlp -g with
\* exec.CommandContext, which starts nothing once the context is done.
DownloadCall(r) ==
    /\ pc[r] = "ready"
    /\ pc' = Set(pc, r, "direct_wait")
    /\ h' = [h EXCEPT ![r].direct = @ + 1,
                      ![r].ctxdone = IF ctx[r] = "live" THEN 0 ELSE 1]
    /\ procs' = IF ctx[r] = "live"
                THEN procs \cup {Proc(r, "direct", FALSE)}
                ELSE procs
    /\ cacheValid' = Set(cacheValid, r, ValidCached(files, track[r]))
    /\ prior' = Set(prior, r, PriorFetched(files, track[r]))
    /\ UNCHANGED <<track, ctx, files, dirExists, found, result, dlOut,
                   retContent, fetched, seen, calls>>
    /\ UNCHANGED callVars

\* No gate: live tracks go on to the cache.
liveRejectedNever(t) == FALSE

\* if track.IsLive { return "", errors.New(...) }
liveRejected(t) == t.IsLive

\* A Download that runs yt-dlp -g again when no address passed the probe.
DirectStreamExitRetry(r) ==
    /\ pc[r] = "direct_wait"
    /\ procs' = procs \ {Proc(r, "direct", FALSE)}
    /\ \E ds \in (IF Running(r, "direct") THEN DirectOutcomes ELSE {NoStream}) :
          IF ds.ok
          THEN /\ result' = Set(result, r, Ok(ds.url))
               /\ pc' = Set(pc, r, "done")
               /\ h' = h
          ELSE /\ result' = result
               /\ pc' = Set(pc, r, IF ds.probed # <<>> THEN "ready" ELSE "lookup")
               /\ h' = Bump(r, "nostream")
    /\ UNCHANGED <<track, ctx, files, dirExists, found, dlOut, retContent,
                   cacheValid, prior, fetched, seen, calls>>
    /\ UNCHANGED callVars

\* A Download that gives up when the direct-stream attempt fails.
DirectStreamExitStrict(r) ==
    /\ pc[r] = "direct_wait"
    /\ procs' = procs \ {Proc(r, "direct", FALSE)}
    /\ \E ds \in (IF Running(r, "direct") THEN DirectOutcomes ELSE {NoStream}) :
          IF ds.ok
          THEN /\ result' = Set(result, r, Ok(ds.url))
               /\ h' = h
          ELSE /\ result' = Set(result, r, Fail(ds.err))
               /\ h' = Bump(r, "nostream")
    /\ pc' = Set(pc, r, "done")
    /\ UNCHANGED <<track, ctx, files, dirExists, found, dlOut, retContent,
                   cacheValid, prior, fetched, seen, calls>>
    /\ UNCHANGED callVars

\* getDirectStreamURL returns; Download returns the address, or the live
\* error, or goes on to the cache.
DirectStreamExit(r) ==
    /\ pc[r] = "direct_wait"
    /\ procs' = procs \ {Proc(r, "direct", FALSE)}
    /\ \E ds \in (IF Running(r, "direct") THEN DirectOutcomes ELSE {NoStream}) :
          IF ds.ok
          THEN /\ result' = Set(result, r, Ok(ds.url))
               /\ pc' = Set(pc, r, "done")
               /\ h' = h
          ELSE IF liveRejected(track[r])
          THEN /\ result' = Set(result, r, Fail("live streams cannot be downloaded as file"))
               /\ pc' = Set(pc, r, "done")
               /\ h' = Bump(r, "nostream")
          ELSE /\ result' = result
               /\ pc' = Set(pc, r, "lookup")
               /\ h' = Bump(r, "nostream")
    /\ UNCHANGED <<track, ctx, files, dirExists, found, dlOut, retContent,
                   cacheValid, prior, fetched, seen, calls>>
    /\ UNCHANGED callVars

\* A lookup that finds nothing, whatever the directory holds.
CacheLookupIgnoreHit(r) ==
    /\ pc[r] = "lookup"
    /\ h' = Bump(r, "lookup")
    /\ pc' = Set(pc, r, "mkdir")
    /\ UNCHANGED <<track, ctx, procs, files, dirExists, found, result, dlOut,
                   retContent, cacheValid, prior, fetched, seen, calls>>
    /\ UNCHANGED callVars

\* A lookup whose hits are all probed, audio ones too.
CacheLookupProbeAudio(r) ==
    /\ pc[r] = "lookup"
    /\ h' = Bump(r, "lookup")
    /\ LET m == KeyFiles(files, track[r])
       IN  IF m = {}
           THEN /\ pc' = Set(pc, r, "mkdir")
                /\ UNCHANGED <<found, seen>>
           ELSE \E p \in m :
                /\ found' = Set(found, r, p)
                /\ seen' = Set(seen, r, seen[r] \cup {files[p].owner})
                /\ pc' = Set(pc, r, "validate")
    /\ UNCHANGED <<track, ctx, procs, files, dirExists, result, dlOut,
                   retContent, cacheValid, prior, fetched, calls>>
    /\ UNCHANGED callVars

\* checkDownloadedFile(key): a miss goes on to the fetch, an audio hit is
\* returned at once, a video hit goes to ffprobe.
CacheLookup(r) ==
    /\ pc[r] = "lookup"
    /\ h' = Bump(r, "lookup")
    /\ LET m == KeyFiles(files, track[r])
       IN  IF m = {}
           THEN /\ pc' = Set(pc, r, "mkdir")
                /\ UNCHANGED <<found, result, retContent, seen>>
           ELSE \E p \in m :
                /\ found' = Set(found, r, p)
                /\ seen' = Set(seen, r, seen[r] \cup {files[p].owner})
                /\ IF track[r].Video
                   THEN /\ pc' = Set(pc, r, "validate")
                        /\ UNCHANGED <<result, retContent>>
                   ELSE /\ pc' = Set(pc, r, "done")
                        /\ result' = Set(result, r, Ok(p))
                        /\ retContent' = Set(retContent, r, files[p].content)
    /\ UNCHANGED <<track, ctx, procs, files, dirExists, dlOut, cacheValid,
                   prior, fetched, calls>>
    /\ UNCHANGED callVars

\* isValidVideoFile(path) on the path the lookup found.
ValidateCache(r) ==
    /\ pc[r] = "validate"
    /\ \E guess \in BOOLEAN :
          IF isValidVideoFile(files, found[r], guess)
          THEN /\ pc' = Set(pc, r, "done")
               /\ h' = Bump(r, "validate")
               /\ result' = Set(result, r, Ok(found[r]))
               /\ retContent' = Set(retContent, r,
                      IF Exists(files, found[r]) THEN files[found[r]].content
                      ELSE "none")
          ELSE /\ pc' = Set(pc, r, "evict")
               /\ h' = [h EXCEPT ![r].validate = @ + 1, ![r].invalid = @ + 1]
               /\ UNCHANGED <<result, retContent>>
    /\ UNCHANGED <<track, ctx, procs, files, dirExists, found, dlOut,
                   cacheValid, prior, fetched, seen, calls>>
    /\ UNCHANGED callVars

\* After the removal Download looks into the cache once more.
EvictCacheLookupAgain(r) ==
    /\ pc[r] = "evict"
    /\ pc' = Set(pc, r, "lookup")
    /\ h' = Bump(r, "evict")
    /\ files' = Remove(files, found[r])
    /\ UNCHANGED <<track, ctx, procs, dirExists, found, result, dlOut,
                   retContent, cacheValid, prior, fetched, seen, calls>>
    /\ UNCHANGED callVars

\* A removal whose failure ends the request.
EvictCacheStrict(r) ==
    /\ pc[r] = "evict"
    /\ LET p == found[r]
       IN  \E rmOk \in BOOLEAN :
           IF Exists(files, p) /\ rmOk
           THEN /\ files' = Remove(files, p)
                /\ pc' = Set(pc, r, "mkdir")
                /\ h' = Bump(r, "evict")
                /\ result' = result
           ELSE /\ files' = files
                /\ pc' = Set(pc, r, "done")
                /\ h' = [h EXCEPT ![r].evict = @ + 1, ![r].rmfail = @ + 1]
                /\ result' = Set(result, r, Fail("remove cached file"))
    /\ UNCHANGED <<track, ctx, procs, dirExists, found, dlOut, retContent,
                   cacheValid, prior, fetched, seen, calls>>
    /\ UNCHANGED callVars

\* os.Remove(path): it fails when the file is gone already or cannot be
\* removed; the error is dropped.
EvictCache(r) ==
    /\ pc[r] = "evict"
    /\ pc' = Set(pc, r, "mkdir")
    /\ LET p == found[r]
       IN  \E rmOk \in BOOLEAN :
           IF Exists(files, p) /\ rmOk
           THEN /\ files' = Remove(files, p)
                /\ h' = Bump(r, "evict")
                /\ seen' = Set(seen, r, seen[r] \cup {files[p].owner})
                /\ fetched' = fetched \ {p}
                /\ cacheValid' = CacheValidAfter(r, p)
                /\ prior' = PriorAfter(r, p)
           ELSE /\ h' = [h EXCEPT ![r].evict = @ + 1, ![r].rmfail = @ + 1]
                /\ UNCHANGED <<files, seen, fetched, cacheValid, prior>>
    /\ UNCHANGED <<track, ctx, procs, dirExists, found, result, dlOut,
                   retContent, calls>>
    /\ UNCHANGED callVars

\* ensureDownloadsDir(): creates the directory when it is missing, and may
\* fail.
EnsureDir(r) ==
    /\ pc[r] = "mkdir"
    /\ h' = Bump(r, "mkdir")
    /\ \E ok \in BOOLEAN :
          IF ok \/ dirExists
          THEN /\ dirExists' = TRUE
               /\ pc' = Set(pc, r, "dl_start")
               /\ result' = result
          ELSE /\ dirExists' = dirExists
               /\ pc' = Set(pc, r, "done")
               /\ result' = Set(result, r, Fail("mkdir downloads"))
    /\ UNCHANGED <<track, ctx, procs, files, found, dlOut, retContent,
                   cacheValid, prior, fetched, seen, calls>>
    /\ UNCHANGED callVars

\* A second download for a path is held back while one is running.
DownloadModeStartLocked(r) ==
    /\ pc[r] = "dl_start"
    /\ ~\E q \in procs : /\ q.mode = "download"
                         /\ q.req # r
                         /\ outPath(track[q.req]) = outPath(track[r])
    /\ pc' = Set(pc, r, "dl_wait")
    /\ h' = Bump(r, "dl")
    /\ procs' = IF ctx[r] = "live"
                THEN procs \cup {Proc(r, "download", FALSE)}
                ELSE procs
    /\ UNCHANGED <<track, ctx, files, dirExists, found, result, dlOut,
                   retContent, cacheValid, prior, fetched, seen, calls>>
    /\ UNCHANGED callVars

\* A Download that starts yt-dlp with exec.Command: the process runs
\* whatever has become of the context.
DownloadModeStartUnbound(r) ==
    /\ pc[r] = "dl_start"
    /\ pc' = Set(pc, r, "dl_wait")
    /\ h' = Bump(r, "dl")
    /\ procs' = procs \cup {Proc(r, "download", FALSE)}
    /\ UNCHANGED <<track, ctx, files, dirExists, found, result, dlOut,
                   retContent, cacheValid, prior, fetched, seen, calls>>
    /\ UNCHANGED callVars

\* exec.CommandContext(ctx, "yt-dlp", args...) and the start of cmd.Run:
\* nothing is started once the context is done.
DownloadModeStart(r) ==
    /\ pc[r] = "dl_start"
    /\ pc' = Set(pc, r, "dl_wait")
    /\ h' = Bump(r, "dl")
    /\ procs' = IF ctx[r] = "live"
                THEN procs \cup {Proc(r, "download", FALSE)}
                ELSE procs
    /\ UNCHANGED <<track, ctx, files, dirExists, found, result, dlOut,
                   retContent, cacheValid, prior, fetched, seen, calls>>
    /\ UNCHANGED callVars

\* The running yt-dlp opens its output file.  With --no-part and
\* --force-overwrites it writes straight into the final name, replacing
\* what is there.
ResolverWrite(r) ==
    /\ Proc(r, "download", FALSE) \in procs
    /\ LET p == outPath(track[r])
       IN  /\ files' = Put(files, p,
                          [content |-> "partial", owner |-> ownerOf(track[r])])
           /\ seen' = Set(seen, r, seen[r] \cup Owners(files, {p}))
           /\ fetched' = fetched \ {p}
           /\ cacheValid' = CacheValidAfter(r, p)
           /\ prior' = PriorAfter(r, p)
    /\ procs' = (procs \ {Proc(r, "download", FALSE)})
                    \cup {Proc(r, "download", TRUE)}
    /\ UNCHANGED <<pc, track, ctx, dirExists, found, result, h, dlOut,
                   retContent, calls>>
    /\ UNCHANGED callVars

\* What a finished download leaves: an audio download a file without a
\* video stream, a video download a file with or without one.
finalContents(t) == IF t.Video THEN {"video", "novideo"} ELSE {"novideo"}

\* The end of Download, from cmd.Run's error to the last return.
downloadResult(exitOk, stdout, fs) ==
    IF ~exitOk
    THEN Fail("yt-dlp failed")
    ELSE LET path == TrimSpace(stdout)
         IN  IF path = ""
             THEN Fail("yt-dlp produced empty output path")
             ELSE IF ~osStat(fs, path)
             THEN Fail("stat: no such file")
             ELSE Ok(path)

\* A Download that starts the download-mode invocation again when it
\* failed.
DownloadModeExitRetry(r) ==
    /\ pc[r] = "dl_wait"
    /\ procs' = {q \in procs : ~(q.req = r /\ q.mode = "download")}
    /\ pc' = Set(pc, r, "dl_start")
    /\ UNCHANGED <<track, ctx, files, dirExists, found, result, h, dlOut,
                   retContent, cacheValid, prior, fetched, seen, calls>>
    /\ UNCHANGED callVars

\* cmd.Run returns: the process exited, was killed, or never started.
DownloadModeExit(r) ==
    /\ pc[r] = "dl_wait"
    /\ LET t == track[r]
           p == outPath(t)
           ran == Running(r, "download")
           writing == Proc(r, "download", TRUE) \in procs
           others == \E q \in procs : /\ q.req # r
                                      /\ q.mode = "download"
                                      /\ q.writing
                                      /\ outPath(track[q.req]) = p
       IN  /\ procs' = {q \in procs : ~(q.req = r /\ q.mode = "download")}
           /\ \E exitOk \in BOOLEAN, content \in finalContents(t),
                 stdout \in {"", GhostPath \o "\n"} :
                LET done == ran /\ exitOk
                    fs1 == IF done /\ writing /\ Exists(files, p) /\ ~others
                           THEN Put(files, p, [content |-> content,
                                               owner |-> files[p].owner])
                           ELSE files
                    printed == IF writing THEN p \o "\n" ELSE stdout
                    res == downloadResult(done, printed, fs1)
                    good == res.err = "nil" /\ Exists(fs1, res.loc)
                IN  /\ files' = fs1
                    /\ result' = Set(result, r, res)
                    /\ dlOut' = Set(dlOut, r,
                          [exit |-> IF done THEN "ok" ELSE "failed",
                           printed |-> IF done THEN TrimSpace(printed) ELSE "",
                           stat |-> done /\ Exists(fs1, TrimSpace(printed))])
                    /\ retContent' = Set(retContent, r,
                          IF good THEN fs1[res.loc].content ELSE "none")
                    /\ fetched' = IF good THEN fetched \cup {res.loc} ELSE fetched
                    /\ seen' = Set(seen, r, seen[r] \cup Owners(fs1, {res.loc}))
    /\ pc' = Set(pc, r, "done")
    /\ UNCHANGED <<track, ctx, dirExists, found, h, cacheValid, prior, calls>>
    /\ UNCHANGED callVars

(***************************************************************************)
(* The caller.                                                             *)
(***************************************************************************)
InCall(r) == pc[r] \notin {"idle", "done", "tracks_err"}

\* The caller cancels its context: every process started with
\* exec.CommandContext on it is killed.
Cancel(r) ==
    /\ InCall(r)
    /\ ctx[r] = "live"
    /\ ctx' = Set(ctx, r, "cancelled")
    /\ procs' = {q \in procs : ~(q.req = r /\ boundToContext(q.mode))}
    /\ UNCHANGED <<pc, track, files, dirExists, found, result, h, dlOut,
                   retContent, cacheValid, prior, fetched, seen, calls>>
    /\ UNCHANGED callVars

\* The caller has its answer; the task is free for the next request.
Return(r) ==
    /\ pc[r] \in {"done", "tracks_err"}
    /\ pc' = Set(pc, r, "idle")
    /\ track' = Set(track, r, NoTrack)
    /\ ctx' = Set(ctx, r, "live")
    /\ found' = Set(found, r, "")
    /\ result' = Set(result, r, NoResult)
    /\ h' = Set(h, r, H0)
    /\ dlOut' = Set(dlOut, r, NoDlOut)
    /\ retContent' = Set(retContent, r, "none")
    /\ cacheValid' = Set(cacheValid, r, FALSE)
    /\ prior' = Set(prior, r, "")
    /\ seen' = Set(seen, r, {})
    /\ UNCHANGED <<procs, files, dirExists, fetched, calls>>
    /\ UNCHANGED callVars

Next ==
    \E r \in Requests :
        \/ GetTracksCall(r)
        \/ ExtractMetadataExit(r)
        \/ DownloadCall(r)
        \/ DirectStreamExit(r)
        \/ CacheLookup(r)
        \/ ValidateCache(r)
        \/ EvictCache(r)
        \/ EnsureDir(r)
        \/ DownloadModeStart(r)
        \/ ResolverWrite(r)
        \/ DownloadModeExit(r)
        \/ Cancel(r)
        \/ Return(r)

Spec == Init /\ [][Next]_vars

\* Every external process and every probe returns, and a task that can
\* take the next statement of Download takes it.
Fairness ==
    \A r \in Requests :
        /\ WF_vars(DirectStreamExit(r))
        /\ WF_vars(CacheLookup(r))
        /\ WF_vars(ValidateCache(r))
        /\ WF_vars(EvictCache(r))
        /\ WF_vars(EnsureDir(r))
        /\ WF_vars(DownloadModeStart(r))
        /\ WF_vars(DownloadModeExit(r))

SpecFair == Spec /\ Fairness

(***************************************************************************)
(* GetTracks on its own (src/unnamed/part_001, the revision that accepts   *)
(* live descriptors): one call on every metadata descriptor yt-dlp -j can  *)
(* print, up to MaxEntries entries.                                        *)
(***************************************************************************)
\* Entries of one playlist descriptor.
MaxEntries == 2

\* A descriptor without entries (ytdlpInfo with the fields GetTracks and
\* infoToTrack read).
Leaf(id, live, orig) ==
    [ID |-> id, IsLive |-> live, URL |-> "https://v.example/" \o id,
     OriginalURL |-> orig, Entries |-> <<>>]

\* A descriptor with entries.
Container(id, live, es) ==
    [ID |-> id, IsLive |-> live, URL |-> "https://v.example/" \o id,
     OriginalURL |-> "", Entries |-> es]

LeafInfos ==
    {Leaf(id, live, orig) :
        id \in TrackIDs, live \in BOOLEAN, orig \in {"", "https://s.example/x"}}

EntryLeaves ==
    {Leaf(id, live, "") : id \in TrackIDs, live \in BOOLEAN}
        \cup {Leaf("abc", FALSE, "https://s.example/x")}

\* Entries that are containers themselves.
NestedInfos ==
    {Container("mix", FALSE, <<Leaf("abc", FALSE, "")>>),
     Container("mix", FALSE, <<Leaf("abc", FALSE, ""), Leaf("xyz", TRUE, "")>>)}

SeqsUpTo(S, n) == UNION {[1..k -> S] : k \in 1..n}

PlaylistInfos ==
    {Container("pl", live, es) :
        live \in BOOLEAN, es \in SeqsUpTo(EntryLeaves \cup NestedInfos, MaxEntries)}

Infos == LeafInfos \cup PlaylistInfos

\* The tag the handler is registered under.
PlatformYtDlp == "ytdlp"

\* infoToTrack that always takes the resolved webpage URL.
infoToTrackWebpageOnly(info, video) ==
    [ID |-> info.ID, URL |-> info.URL, Source |-> PlatformYtDlp,
     Video |-> video, IsLive |-> info.IsLive]

\* infoToTrack of the revision without live support: IsLive stays false.
infoToTrackNoLive(info, video) ==
    [ID |-> info.ID,
     URL |-> IF info.OriginalURL # "" THEN info.OriginalURL ELSE info.URL,
     Source |-> PlatformYtDlp, Video |-> video, IsLive |-> FALSE]

infoToTrack(info, video) ==
    [ID |-> info.ID,
     URL |-> IF info.OriginalURL # "" THEN info.OriginalURL ELSE info.URL,
     Source |-> PlatformYtDlp, Video |-> video, IsLive |-> info.IsLive]

\* What yt-dlp -j may write to its standard error.
Diagnostics == {"", "ERROR: Unsupported URL"}

\* extractMetadata: yt-dlp -j exits with an error, prints what is not
\* JSON, or prints the descriptor; diag is what it wrote to its standard
\* error.  The error of a failed run quotes diag, the error of
\* json.Unmarshal is the decoder's own.
extractMetadata(exitOk, jsonOk, diag, info) ==
    IF ~exitOk
    THEN [ok |-> FALSE,
          err |-> "metadata extraction failed: exit status 1\nStderr:\n" \o diag]
    ELSE IF ~jsonOk
    THEN [ok |-> FALSE,
          err |-> "invalid JSON from yt-dlp: invalid character"]
    ELSE [ok |-> TRUE, info |-> info]

\* The entries loop of GetTracks.
entryTracks(es, video) == [i \in 1..Len(es) |-> infoToTrack(es[i], video)]

GetTracks(exitOk, jsonOk, diag, desc, video) ==
    LET m == extractMetadata(exitOk, jsonOk, diag, desc)
    IN  IF ~m.ok
        THEN [done |-> TRUE, tracks |-> <<>>,
              err |-> "failed to extract metadata: " \o m.err]
        ELSE IF m.info.IsLive
        THEN [done |-> TRUE, tracks |-> <<infoToTrack(m.info, video)>>,
              err |-> "nil"]
        ELSE IF Len(m.info.Entries) > 0
        THEN [done |-> TRUE, tracks |-> entryTracks(m.info.Entries, video),
              err |-> "nil"]
        ELSE [done |-> TRUE, tracks |-> <<infoToTrack(m.info, video)>>,
              err |-> "nil"]

InitTracks ==
    /\ TasksIdle
    /\ op = "GetTracks"
    /\ arg \in [info : Infos, video : BOOLEAN, exitOk : BOOLEAN,
                jsonOk : BOOLEAN, diag : Diagnostics]
    /\ ret = Pending

ApplyGetTracks ==
    /\ op = "GetTracks"
    /\ ~ret.done
    /\ ret' = GetTracks(arg.exitOk, arg.jsonOk, arg.diag, arg.info, arg.video)
    /\ UNCHANGED <<op, arg>>
    /\ UNCHANGED taskVars

NextTracks == ApplyGetTracks

SpecTracks == InitTracks /\ [][NextTracks]_vars

\* GetTracks has returned tracks for a descriptor yt-dlp printed.
Extracted == op = "GetTracks" /\ ret.done /\ arg.exitOk /\ arg.jsonOk

\* The identifiers of the leaf descriptors under a descriptor, in order.
RECURSIVE LeafIDs(_)
LeafIDs(info) ==
    IF Len(info.Entries) = 0
    THEN <<info.ID>>
    ELSE LET RECURSIVE cat(_)
             cat(i) == IF i > Len(info.Entries) THEN <<>>
                       ELSE LeafIDs(info.Entries[i]) \o cat(i + 1)
         IN  cat(1)

TrackIDsOf(ts) == [i \in 1..Len(ts) |-> ts[i].ID]

\* C11 as stated: for a descriptor with entries GetTracks returns no Track
\* for the container itself and exactly one Track for every leaf descriptor
\* under it, also when the container is flagged live and when an entry is
\* a container itself.
C11_ContainerNeverTrack ==
    (Extracted /\ Len(arg.info.Entries) > 0) =>
        /\ ret.err = "nil"
        /\ \A i \in 1..Len(ret.tracks) : ret.tracks[i].ID # arg.info.ID
        /\ TrackIDsOf(ret.tracks) = LeafIDs(arg.info)

\* C12: when yt-dlp printed a descriptor flagged live, GetTracks does not
\* fail: it returns exactly one Track, made from that descriptor and
\* flagged IsLive, which is the Track the live gate of Download turns
\* away later.
C12_LiveDescriptorAccepted ==
    (Extracted /\ arg.info.IsLive) =>
        /\ ret.err = "nil"
        /\ Len(ret.tracks) = 1
        /\ ret.tracks[1].ID = arg.info.ID
        /\ ret.tracks[1].Video = arg.video
        /\ ret.tracks[1].IsLive
        /\ liveRejected(ret.tracks[1])

\* GetTracks returned the one Track of a live descriptor without entries.
C12_Witness ==
    /\ Extracted
    /\ arg.info.IsLive
    /\ Len(arg.info.Entries) = 0
    /\ Len(ret.tracks) = 1
    /\ ret.tracks[1].IsLive

\* C13 as stated: for a descriptor with entries GetTracks returns as many
\* Tracks as there are entries, in the order of the entries, each entry
\* flagged live as a Track flagged IsLive, none left out.
C13_PlaylistKeepsLiveEntries ==
    (Extracted /\ Len(arg.info.Entries) > 0) =>
        /\ Len(ret.tracks) = Len(arg.info.Entries)
        /\ \A i \in 1..Len(ret.tracks) :
              /\ ret.tracks[i].ID = arg.info.Entries[i].ID
              /\ ret.tracks[i].IsLive = arg.info.Entries[i].IsLive

\* C22 as stated: when yt-dlp -j exits with an error or prints what does
\* not parse as a descriptor, GetTracks returns an error and no Track, and
\* the error holds what yt-dlp wrote to its standard error.
C22_ExtractionErrorCarriesDiagnostic ==
    (op = "GetTracks" /\ ret.done /\ ~(arg.exitOk /\ arg.jsonOk)) =>
        /\ ret.err # "nil"
        /\ ret.tracks = <<>>
        /\ Contains(ret.err, arg.diag)

\* The descriptor the i-th returned Track was made from.
SourceOf(info, i) ==
    IF info.IsLive \/ Len(info.Entries) = 0 THEN info ELSE info.Entries[i]

\* C24: every Track GetTracks returns has as URL the original URL of the
\* descriptor it was made from when that is not empty and the webpage URL
\* otherwise, the ID of that descriptor, the media kind that was asked
\* for, and the handler's tag as Source.
C24_TrackFieldsFromDescriptor ==
    Extracted =>
        \A i \in 1..Len(ret.tracks) :
            LET d == SourceOf(arg.info, i)
                t == ret.tracks[i]
            IN  /\ d.OriginalURL # "" => t.URL = d.OriginalURL
                /\ d.OriginalURL = "" => t.URL = d.URL
                /\ t.ID = d.ID
                /\ t.Video = arg.video
                /\ t.Source = PlatformYtDlp

\* A playlist gave two Tracks, one with the original URL of its entry and
\* one with the webpage URL of an entry that has no original URL.
C24_Witness ==
    /\ Extracted
    /\ Len(ret.tracks) = 2
    /\ arg.info.Entries[1].OriginalURL # ""
    /\ ret.tracks[1].URL = arg.info.Entries[1].OriginalURL
    /\ ret.tracks[1].URL # arg.info.Entries[1].URL
    /\ arg.info.Entries[2].OriginalURL = ""
    /\ ret.tracks[2].URL = arg.info.Entries[2].URL

(***************************************************************************)
(* IsValid on its own (ytdlp.go 350-354), with url.Parse of net/url as far *)
(* as IsValid depends on it: the scheme, the authority and the errors.     *)
(***************************************************************************)
Char(s, i) == SubSeq(s, i, i)

\* strings.Index and strings.LastIndex for a one-byte separator; 0 stands
\* for Go's -1, positions count from 1.
Index(s, c) ==
    IF \E i \in 1..Len(s) : Char(s, i) = c
    THEN CHOOSE i \in 1..Len(s) :
            Char(s, i) = c /\ \A j \in 1..(i - 1) : Char(s, j) # c
    ELSE 0

LastIndex(s, c) ==
    IF \E i \in 1..Len(s) : Char(s, i) = c
    THEN CHOOSE i \in 1..Len(s) :
            Char(s, i) = c /\ \A j \in (i + 1)..Len(s) : Char(s, j) # c
    ELSE 0

Letters ==
    {"a", "b", "c", "d", "e", "f", "g", "h", "i", "j", "k", "l", "m", "n",
     "o", "p", "q", "r", "s", "t", "u", "v", "w", "x", "y", "z",
     "A", "B", "C", "D", "E", "F", "G", "H", "I", "J", "K", "L", "M", "N",
     "O", "P", "Q", "R", "S", "T", "U", "V", "W", "X", "Y", "Z"}

Digits == {"0", "1", "2", "3", "4", "5", "6", "7", "8", "9"}

\* stringContainsCTLByte, over the control bytes a string here can hold.
stringContainsCTLByte(s) ==
    \E i \in 1..Len(s) : Char(s, i) \in {"\t", "\n", "\r", "\f"}

\* getScheme of net/url: the scheme up to the first colon, no scheme when
\* a byte that cannot be in one comes first, an error for a leading colon.
RECURSIVE getSchemeFrom(_, _)
getSchemeFrom(s, i) ==
    IF i > Len(s)
    THEN [scheme |-> "", rest |-> s, err |-> FALSE]
    ELSE LET c == Char(s, i)
         IN  IF c \in Letters THEN getSchemeFrom(s, i + 1)
             ELSE IF c \in Digits \cup {"+", "-", "."}
             THEN IF i = 1
                  THEN [scheme |-> "", rest |-> s, err |-> FALSE]
                  ELSE getSchemeFrom(s, i + 1)
             ELSE IF c = ":"
             THEN IF i = 1
                  THEN [scheme |-> "", rest |-> "", err |-> TRUE]
                  ELSE [scheme |-> SubSeq(s, 1, i - 1),
                        rest |-> SubSeq(s, i + 1, Len(s)), err |-> FALSE]
             ELSE [scheme |-> "", rest |-> s, err |-> FALSE]

getScheme(s) == getSchemeFrom(s, 1)

\* validOptionalPort: empty, or a colon followed by digits only.
validOptionalPort(port) ==
    \/ port = ""
    \/ /\ Char(port, 1) = ":"
       /\ \A i \in 2..Len(port) : Char(port, i) \in Digits

\* parseHost for a host without brackets: the port has to be numeric and
\* the bytes that have to be escaped in a host are refused.
parseHostOk(host) ==
    /\ LastIndex(host, ":") > 0
          => validOptionalPort(SubSeq(host, LastIndex(host, ":"), Len(host)))
    /\ \A i \in 1..Len(host) :
          Char(host, i) \notin {" ", "\\", "^", "{", "|", "}"}

\* parseAuthority: the host is what follows the last "@".
parseAuthority(authority) ==
    LET i == LastIndex(authority, "@")
        host == SubSeq(authority, i + 1, Len(authority))
    IN  [ok |-> parseHostOk(host), host |-> host]

UrlError == [ok |-> FALSE, scheme |-> "", host |-> ""]

\* url.Parse, as far as err, Scheme (as written, not lowered) and Host.
urlParse(rawURL) ==
    LET f == Index(rawURL, "#")
        u == IF f > 0 THEN SubSeq(rawURL, 1, f - 1) ELSE rawURL
        g == getScheme(u)
        q == Index(g.rest, "?")
        rest == IF q > 0 THEN SubSeq(g.rest, 1, q - 1) ELSE g.rest
    IN  IF stringContainsCTLByte(u) \/ g.err THEN UrlError
        ELSE IF ~HasPrefix(rest, "/")
        THEN IF g.scheme # ""
             THEN [ok |-> TRUE, scheme |-> g.scheme, host |-> ""]
             ELSE LET s == Index(rest, "/")
                      segment == IF s > 0 THEN SubSeq(rest, 1, s - 1) ELSE rest
                  IN  IF Index(segment, ":") > 0 THEN UrlError
                      ELSE [ok |-> TRUE, scheme |-> "", host |-> ""]
        ELSE IF HasPrefix(rest, "//") /\ (g.scheme # "" \/ ~HasPrefix(rest, "///"))
        THEN LET tail == SubSeq(rest, 3, Len(rest))
                 s == Index(tail, "/")
                 authority == IF s > 0 THEN SubSeq(tail, 1, s - 1) ELSE tail
                 a == parseAuthority(authority)
             IN  IF a.ok
                 THEN [ok |-> TRUE, scheme |-> g.scheme, host |-> a.host]
                 ELSE UrlError
        ELSE [ok |-> TRUE, scheme |-> g.scheme, host |-> ""]

\* IsValid without the strings.TrimSpace.
IsValidNoTrim(query) ==
    LET u == urlParse(query)
    IN  u.ok /\ u.scheme # "" /\ u.host # ""

IsValid(query) ==
    LET u == urlParse(TrimSpace(query))
    IN  u.ok /\ u.scheme # "" /\ u.host # ""

\* References, each with what a URI parser makes of it: whether it parses
\* at all, and whether it then has a scheme and a host.
Ref(text, parses, scheme, host) ==
    [text |-> text, parses |-> parses, scheme |-> scheme, host |-> host]

References ==
    {Ref("https://example.com/x", TRUE, TRUE, TRUE),
     Ref("ftp://h:21/f", TRUE, TRUE, TRUE),
     Ref("http://u@h", TRUE, TRUE, TRUE),
     Ref("http://h?q#f", TRUE, TRUE, TRUE),
     Ref("http://h/a b", TRUE, TRUE, TRUE),
     Ref("not a url", TRUE, FALSE, FALSE),
     Ref("example.com", TRUE, FALSE, FALSE),
     Ref("", TRUE, FALSE, FALSE),
     Ref("http://", TRUE, TRUE, FALSE),
     Ref("http:///path", TRUE, TRUE, FALSE),
     Ref("mailto:a@b.c", TRUE, TRUE, FALSE),
     Ref("//example.com/x", TRUE, FALSE, TRUE),
     Ref("://example.com", FALSE, FALSE, FALSE),
     Ref("1http://h", FALSE, FALSE, FALSE),
     Ref("http://exa mple.com", FALSE, FALSE, FALSE),
     Ref("http://h:x", FALSE, FALSE, FALSE),
     Ref("http://h\tx", FALSE, FALSE, FALSE)}

\* White space a caller may leave around a reference.
Paddings == {"", " ", "\n", " \t"}

InitValid ==
    /\ TasksIdle
    /\ op = "IsValid"
    /\ \E ref \in References, l \in Paddings, r \in Paddings :
          arg = [query |-> l \o ref.text \o r, ref |-> ref]
    /\ ret = Pending

ApplyIsValid ==
    /\ op = "IsValid"
    /\ ~ret.done
    /\ ret' = [done |-> TRUE, valid |-> IsValid(arg.query)]
    /\ UNCHANGED <<op, arg>>
    /\ UNCHANGED taskVars

NextValid == ApplyIsValid

SpecValid == InitValid /\ [][NextValid]_vars

\* C14: IsValid answers for every string, with true exactly when the
\* string, the white space around it taken off, parses as a URI that has a
\* scheme and a host; it changes nothing.
C14_IsValidTotal ==
    (op = "IsValid" /\ ret.done) =>
        /\ ret.valid \in BOOLEAN
        /\ ret.valid = (arg.ref.parses /\ arg.ref.scheme /\ arg.ref.host)
        /\ TasksIdle

\* IsValid accepted a reference with white space around it.
C14_Witness ==
    /\ op = "IsValid"
    /\ ret.done
    /\ ret.valid
    /\ arg.query # arg.ref.text

(***************************************************************************)
(* getDirectStreamURL on its own (ytdlp.go 389-433): one resolution over   *)
(* every output of yt-dlp -g and every answer of the probed servers.       *)
(***************************************************************************)
InitDirect ==
    /\ TasksIdle
    /\ op = "getDirectStreamURL"
    /\ \E ls \in LineSeqs, e \in BOOLEAN, st \in [ProbeURLs -> ProbeOutcomes] :
          arg = [printed |-> ls, out |-> JoinLines(ls), exitOk |-> e, st |-> st]
    /\ ret = Pending

ApplyGetDirectStreamURL ==
    /\ op = "getDirectStreamURL"
    /\ ~ret.done
    /\ ret' = [done |-> TRUE,
               ds |-> getDirectStreamURL(TRUE, arg.exitOk, arg.out, arg.st)]
    /\ UNCHANGED <<op, arg>>
    /\ UNCHANGED taskVars

NextDirect == ApplyGetDirectStreamURL

SpecDirect == InitDirect /\ [][NextDirect]_vars

\* The addresses among the lines yt-dlp -g printed, in the order printed.
Candidates(ls) ==
    LET addr == SelectSeq(ls, LAMBDA l : HasPrefix(l, "http"))
    IN  [i \in 1..Len(addr) |-> TrimSpace(addr[i])]

\* The server answered the HEAD request with a status below 400.
Reachable(st, u) == st[u] \in 1..399

\* C19: getDirectStreamURL probes the addresses in the order yt-dlp
\* printed them, leaving out the lines that are no addresses, and returns
\* the first one whose probe reports a status below 400, the later ones
\* not probed; when none passes it fails with the no-valid-stream error.
C19_FirstReachableCandidate ==
    (op = "getDirectStreamURL" /\ ret.done /\ arg.exitOk) =>
        LET cands == Candidates(arg.printed)
            pass == {i \in 1..Len(cands) : Reachable(arg.st, cands[i])}
        IN  IF pass = {}
            THEN /\ ~ret.ds.ok
                 /\ ret.ds.url = ""
                 /\ ret.ds.err = "no valid direct stream url"
                 /\ ret.ds.probed = cands
            ELSE LET k == CHOOSE i \in pass : \A j \in pass : i <= j
                 IN  /\ ret.ds.ok
                     /\ ret.ds.err = "nil"
                     /\ ret.ds.url = cands[k]
                     /\ ret.ds.probed = SubSeq(cands, 1, k)

\* The first address failed the probe with status 400 and the second one,
\* answering 399, was returned.
C19_Witness ==
    /\ op = "getDirectStreamURL"
    /\ ret.done
    /\ ret.ds.ok
    /\ Len(ret.ds.probed) = 2
    /\ arg.st[ret.ds.probed[1]] = 400
    /\ arg.st[ret.ds.url] = 399
    /\ ret.ds.url = ret.ds.probed[2]

(***************************************************************************)
(* The cookie rule on its own (isYouTubeURL, ytdlp.go 338-340 and 569-576, *)
(* and the three places that build the arguments of yt-dlp).               *)
(***************************************************************************)
UpperAlphabet == "ABCDEFGHIJKLMNOPQRSTUVWXYZ"

LowerAlphabet == "abcdefghijklmnopqrstuvwxyz"

\* One byte, lowered as the (?i) flag of the pattern folds it.
LowerChar(c) ==
    LET i == Index(UpperAlphabet, c)
    IN  IF i > 0 THEN Char(LowerAlphabet, i) ELSE c

RECURSIVE ToLower(_)
ToLower(s) ==
    IF s = "" THEN ""
    ELSE LowerChar(Char(s, 1)) \o ToLower(SubSeq(s, 2, Len(s)))

\* youtubePatterns: (?i)(youtube\.com|youtu\.be|music\.youtube\.com), not
\* anchored, matched against the whole reference.
youtubePatterns == {"youtube.com", "youtu.be", "music.youtube.com"}

isYouTubeURL(u) == \E p \in youtubePatterns : Contains(ToLower(u), p)

\* What cookies.GetRandomCookieFile() may return.
CookiePool ==
    [path : {"", "cookies/a.txt"}, err : BOOLEAN]

\* if y.isYouTubeURL(u) { if cookie, err := ...; err == nil && cookie != ""
cookieArgs(u, cookie) ==
    IF isYouTubeURL(u) /\ ~cookie.err /\ cookie.path # ""
    THEN <<"--cookies", cookie.path>>
    ELSE <<>>

\* The arguments extractMetadata gives yt-dlp.
metadataArgs(u, cookie) ==
    <<"-j", "--no-warnings">> \o cookieArgs(u, cookie) \o <<u>>

\* The arguments getDirectStreamURL gives yt-dlp.
directArgs(t, cookie) ==
    <<"-g", "--no-playlist", "--geo-bypass", "--no-check-certificate",
      "--no-warnings", "-f",
      IF t.Video
      THEN "bestvideo*[height<=720][protocol!=m3u8]/best[height<=720][protocol!=m3u8]/best"
      ELSE "bestaudio[protocol!=m3u8]/bestaudio">>
        \o cookieArgs(t.URL, cookie) \o <<t.URL>>

\* The arguments Download gives yt-dlp.
downloadArgs(t, cookie) ==
    <<"--no-playlist", "--no-part", "--force-overwrites", "--no-warnings",
      "--geo-bypass", "--concurrent-fragments", "4", "--fragment-retries",
      "10", "--retries", "5", "--print", "after_move:filepath", "-o",
      outTpl(cacheKey(t))>>
        \o (IF t.Video
            THEN <<"-f", "bestvideo*[height<=720][vcodec!=vp9]/best[height<=720]/best",
                   "--merge-output-format", "mp4">>
            ELSE <<"-f", "bestaudio", "--extract-audio", "--audio-format", "opus">>)
        \o cookieArgs(t.URL, cookie) \o <<t.URL>>

\* References on the restricted platform family and on other sites, some
\* of the latter naming the family outside their host.
CookieReferences ==
    {"https://www.youtube.com/watch?v=abc",
     "https://YouTu.Be/abc",
     "https://music.youtube.com/watch?v=abc",
     "https://vimeo.com/1",
     "https://soundcloud.com/a/b",
     "https://example.com/watch?next=youtube.com",
     "https://notyoutube.com/v",
     "https://cdn.example/youtu.be/abc"}

Modes == {"metadata", "direct", "download"}

resolverArgs(mode, u, video, cookie) ==
    LET t == [ID |-> "abc", URL |-> u, Video |-> video, IsLive |-> FALSE]
    IN  CASE mode = "metadata" -> metadataArgs(u, cookie)
          [] mode = "direct" -> directArgs(t, cookie)
          [] mode = "download" -> downloadArgs(t, cookie)

InitCookie ==
    /\ TasksIdle
    /\ op = "resolverArgs"
    /\ arg \in [mode : Modes, url : CookieReferences, video : BOOLEAN,
                cookie : CookiePool]
    /\ ret = Pending

ApplyResolverArgs ==
    /\ op = "resolverArgs"
    /\ ~ret.done
    /\ ret' = [done |-> TRUE,
               args |-> resolverArgs(arg.mode, arg.url, arg.video, arg.cookie)]
    /\ UNCHANGED <<op, arg>>
    /\ UNCHANGED taskVars

NextCookie == ApplyResolverArgs

SpecCookie == InitCookie /\ [][NextCookie]_vars

\* The invocation was given the cookie file.
HasCookie(args) ==
    \E i \in 1..(Len(args) - 1) :
        args[i] = "--cookies" /\ args[i + 1] = arg.cookie.path

\* The host of the reference, lowered, is one of the family or below one.
HostInFamily(u) ==
    LET host == ToLower(urlParse(u).host)
    IN  \E d \in {"youtube.com", "youtu.be", "music.youtube.com"} :
           host = d \/ HasSuffix(host, "." \o d)

\* C23 as stated: in each of the three modes the invocation is given a
\* cookie file only when the host of the reference belongs to the family
\* and the pool returned a non-empty path without error, and always then.
C23_CredentialOnlyForFamilyHost ==
    (op = "resolverArgs" /\ ret.done) =>
        (HasCookie(ret.args) <=>
            /\ HostInFamily(arg.url)
            /\ ~arg.cookie.err
            /\ arg.cookie.path # "")

(***************************************************************************)
(* The cache lookup of Download on its own (ytdlp.go 448-449) over the     *)
(* directories earlier downloads leave, with track IDs as a resolver may   *)
(* assign them.                                                            *)
(***************************************************************************)
\* Track identifiers, one of them beginning with the key of another track
\* followed by a dot.
KeyIDs == {"abc", "abc_audio.x", "xyz"}

KeyTracks == [ID : KeyIDs, Video : BOOLEAN, IsLive : {FALSE}]

\* The directory after complete downloads of the tracks in stored: each
\* under the name Download's output template gives it.
DirectoryOf(stored) ==
    [p \in {outPath(t) : t \in stored} |->
        LET t == CHOOSE s \in stored : outPath(s) = p
        IN  [content |-> IF t.Video THEN "video" ELSE "novideo",
             owner |-> ownerOf(t)]]

InitLookup ==
    /\ TasksIdle
    /\ op = "lookup"
    /\ \E t \in KeyTracks, stored \in SUBSET KeyTracks :
          arg = [track |-> t, files |-> DirectoryOf(stored)]
    /\ ret = Pending

\* key := cacheKey(track); checkDownloadedFile(key): the paths the lookup
\* may hand to Download.
ApplyLookup ==
    /\ op = "lookup"
    /\ ~ret.done
    /\ ret' = [done |-> TRUE,
               hits |-> checkDownloadedFile(arg.files, cacheKey(arg.track))]
    /\ UNCHANGED <<op, arg>>
    /\ UNCHANGED taskVars

NextLookup == ApplyLookup

SpecLookup == InitLookup /\ [][NextLookup]_vars

\* Two tracks have the same key only when they agree in ID and kind.
cacheKeyInjective ==
    \A t1, t2 \in KeyTracks :
        cacheKey(t1) = cacheKey(t2) => t1.ID = t2.ID /\ t1.Video = t2.Video

\* C25 as stated: cacheKey is injective over the pairs of track ID and
\* media kind, and the artifact Download takes as its cache hit was stored
\* for the track and kind it is asked for.
C25_NoForeignCacheHit ==
    /\ cacheKeyInjective
    /\ (op = "lookup" /\ ret.done) =>
          \A p \in ret.hits : arg.files[p].owner = ownerOf(arg.track)

(***************************************************************************)
(* Properties.                                                             *)
(***************************************************************************)
Done(r) == pc[r] = "done"

Succeeded(r) == Done(r) /\ result[r].err = "nil"

\* Download returned an address that passed the HEAD probe.
Streamed(r) == Succeeded(r) /\ result[r].loc \in ProbeURLs

LiveError(r) ==
    Done(r) /\ result[r] = Fail("live streams cannot be downloaded as file")

\* None of the steps that follow the direct-stream attempt has happened.
NothingAfterDirect(r) ==
    /\ h[r].lookup = 0
    /\ h[r].validate = 0
    /\ h[r].evict = 0
    /\ h[r].mkdir = 0
    /\ h[r].dl = 0

\* C1: a Download on a live track never reaches the cache lookup or the
\* download-mode invocation, and ends either with a direct-stream address
\* or with the live error.
C1_LiveNeverFetches ==
    \A r \in Requests :
        track[r].IsLive =>
            /\ h[r].lookup = 0
            /\ h[r].dl = 0
            /\ Done(r) => Streamed(r) \/ LiveError(r)

\* A live track whose direct-stream attempt failed got the live error.
C1_Witness ==
    \E r \in Requests : track[r].IsLive /\ h[r].direct = 1 /\ LiveError(r)

\* C2 as stated: with a valid cached video artifact present, Download
\* returns the cached path and invokes the resolver in no mode at all.
C2_Original ==
    \A r \in Requests :
        cacheValid[r] =>
            /\ h[r].direct = 0
            /\ h[r].dl = 0
            /\ Done(r) => /\ Succeeded(r)
                          /\ result[r].loc \in KeyFiles(files, track[r])

\* C2 amended: with a valid cached video artifact present and left alone by
\* the other requests, Download never invokes the resolver in download
\* mode; it invokes it once in direct-address mode and returns the address
\* when that succeeds, fails when the track is live, and returns the cached
\* path otherwise.
C2_CachedVideoNeverFetched ==
    \A r \in Requests :
        cacheValid[r] =>
            /\ h[r].dl = 0
            /\ h[r].direct = 1
            /\ Done(r) =>
                  \/ Streamed(r)
                  \/ track[r].IsLive /\ LiveError(r)
                  \/ /\ Succeeded(r)
                     /\ ~track[r].IsLive
                     /\ result[r].loc = found[r]
                     /\ result[r].loc \in KeyFiles(files, track[r])
                     /\ retContent[r] = "video"

\* The direct-stream attempt failed and the valid cached video came back.
C2_Witness ==
    \E r \in Requests :
        /\ cacheValid[r]
        /\ Succeeded(r)
        /\ h[r].direct = 1
        /\ h[r].validate = 1
        /\ result[r].loc \in KeyFiles(files, track[r])

\* C3: the direct-stream attempt is the first step of every Download, for
\* live and non-live tracks alike: nothing of the cache or the fetch
\* happens before it has finished, and when it yields an address the
\* request returns it with none of those steps taken.
C3_DirectStreamFirst ==
    \A r \in Requests :
        /\ pc[r] \in {"idle", "meta_wait", "tracks_err", "ready"} => h[r] = H0
        /\ pc[r] \notin {"idle", "meta_wait", "tracks_err", "ready"}
              => h[r].direct = 1
        /\ pc[r] = "direct_wait" => NothingAfterDirect(r)
        /\ Streamed(r) => NothingAfterDirect(r)

\* A non-live track with an artifact in the cache was served by the
\* direct stream, the cache left unread.
C3_Witness ==
    \E r \in Requests :
        /\ Streamed(r)
        /\ ~track[r].IsLive
        /\ KeyFiles(files, track[r]) # {}

\* C4: when the download-mode process exits with success but printed no
\* path, or a path that is not on disk, Download returns an error and no
\* location.
C4_MissingArtifactIsError ==
    \A r \in Requests :
        (Done(r) /\ dlOut[r].exit = "ok"
                 /\ (dlOut[r].printed = "" \/ ~dlOut[r].stat))
            => result[r].err # "nil" /\ result[r].loc = ""

\* The resolver exited with success and printed a path that is not there.
C4_Witness ==
    \E r \in Requests :
        /\ Done(r)
        /\ dlOut[r].exit = "ok"
        /\ dlOut[r].printed # ""
        /\ ~dlOut[r].stat
        /\ result[r].err # "nil"

\* C5 as stated: a file path returned as success names a completely
\* written artifact, never one that is still being written.
C5_NoPartialReturned ==
    \A r \in Requests : Succeeded(r) => retContent[r] # "partial"

\* C6 as stated: a call that follows a successful fetch of the same track
\* and kind, the artifact intact, makes no download-mode invocation and,
\* its direct-stream attempt having failed, ends in a cache hit on that
\* artifact.
C6_Original ==
    \A r \in Requests :
        prior[r] # "" =>
            /\ h[r].dl = 0
            /\ (Done(r) /\ ~Streamed(r)) =>
                  result[r] = Ok(prior[r]) /\ h[r].lookup = 1

\* C6 amended: such a call makes a download-mode invocation only when the
\* track is a video whose cached artifact failed validation in this call
\* and was evicted; otherwise it ends with a direct-stream address or in a
\* cache hit on the artifact the first call wrote.
C6_SecondCallReusesArtifact ==
    \A r \in Requests :
        prior[r] # "" =>
            /\ h[r].dl <= 1
            /\ (h[r].dl = 1 \/ h[r].mkdir = 1) =>
                  track[r].Video /\ h[r].validate = 1 /\ h[r].evict = 1
            /\ (Done(r) /\ h[r].evict = 0) =>
                  \/ Streamed(r) /\ h[r].lookup = 0
                  \/ result[r] = Ok(prior[r]) /\ h[r].lookup = 1

\* The second call ended in a cache hit on the first call's artifact.
C6_Witness ==
    \E r \in Requests :
        /\ prior[r] # ""
        /\ Done(r)
        /\ result[r] = Ok(prior[r])
        /\ h[r].lookup = 1
        /\ h[r].dl = 0

\* Another task runs a download-mode process for the output path of r.
OtherDownloads(r) ==
    \E q \in procs : /\ q.req # r
                     /\ q.mode = "download"
                     /\ outPath(track[q.req]) = outPath(track[r])

\* C7: nothing excludes two requests for the same track and kind from each
\* other: a request that missed the cache can start its download-mode
\* invocation while another one runs for the same output path.
C7_NoMutualExclusion ==
    \A r \in Requests :
        (pc[r] = "dl_start" /\ OtherDownloads(r))
            => ENABLED DownloadModeStart(r)

\* Two requests failed the direct stream, missed the cache, and both run a
\* download-mode process writing the same path.
C7_Witness ==
    \E r, q \in Requests :
        /\ r # q
        /\ outPath(track[r]) = outPath(track[q])
        /\ Proc(r, "download", TRUE) \in procs
        /\ Proc(q, "download", TRUE) \in procs
        /\ \A x \in {r, q} : /\ h[x].direct = 1
                             /\ h[x].lookup = 1
                             /\ found[x] = ""

\* C8: Download ends with exactly one of a non-empty location without
\* error (a probed address or a file that exists) and an error with an
\* empty location.
C8_LocationXorError ==
    \A r \in Requests :
        Done(r) =>
            \/ /\ result[r].err = "nil"
               /\ result[r].loc # ""
               /\ result[r].loc \in ProbeURLs \/ retContent[r] # "none"
            \/ /\ result[r].err # "nil"
               /\ result[r].loc = ""

\* One request ended with a location and another with an error.
C8_Witness ==
    \E r, q \in Requests :
        /\ Succeeded(r)
        /\ Done(q)
        /\ result[q].err # "nil"
        /\ h[q].dl = 1

\* C9 as stated: once the caller has cancelled, no external process started
\* for its request is running.
C9_NoProcessAfterCancel ==
    \A r \in Requests :
        ctx[r] = "cancelled" => ~\E p \in procs : p.req = r

\* C10: the audio and the video rendition of one track ID have different
\* cache keys, so a request never finds, returns, removes or overwrites
\* the artifact of the other kind of its own track.
C10_KindsNeverShare ==
    /\ \A id \in TrackIDs, live \in BOOLEAN :
          cacheKey([ID |-> id, Video |-> TRUE, IsLive |-> live])
              # cacheKey([ID |-> id, Video |-> FALSE, IsLive |-> live])
    /\ \A r \in Requests :
          \A o \in seen[r] : o.ID = track[r].ID => o.Video = track[r].Video

\* A request went through the cache and the fetch while the artifact of
\* the other kind of its track lay in the directory.
C10_Witness ==
    \E r \in Requests :
        /\ Done(r)
        /\ h[r].lookup = 1
        /\ seen[r] # {}
        /\ \E p \in DOMAIN files :
              files[p].owner = [ID |-> track[r].ID, Video |-> ~track[r].Video]

\* C15: the phases of one Download run in the order direct-stream
\* attempt, live gate, cache lookup, validation, eviction, fetch, none of
\* them twice; the download-mode invocation comes only after the
\* direct-stream attempt has failed, the track has passed the live gate,
\* and the lookup has found nothing or an entry that failed validation.
C15_PhasesInOrder ==
    \A r \in Requests :
        /\ \A f \in DOMAIN H0 : h[r][f] <= 1
        /\ pc[r] = "direct_wait" => h[r].nostream = 0 /\ NothingAfterDirect(r)
        /\ h[r].nostream = 1 => h[r].direct = 1
        /\ LiveError(r) => h[r].nostream = 1 /\ NothingAfterDirect(r)
        /\ h[r].lookup = 1 => h[r].nostream = 1 /\ ~track[r].IsLive
        /\ h[r].validate = 1 => h[r].lookup = 1 /\ found[r] # ""
        /\ h[r].evict = 1 => h[r].invalid = 1
        /\ h[r].mkdir = 1 =>
              h[r].lookup = 1 /\ (found[r] = "" \/ h[r].evict = 1)
        /\ h[r].dl = 1 =>
              /\ h[r].nostream = 1
              /\ ~track[r].IsLive
              /\ h[r].lookup = 1
              /\ found[r] = "" \/ h[r].invalid = 1
              /\ h[r].mkdir = 1

\* A request went through every phase once: direct-stream attempt, lookup,
\* failed validation, eviction and fetch.
C15_Witness ==
    \E r \in Requests :
        /\ Done(r)
        /\ h[r].direct = 1
        /\ h[r].lookup = 1
        /\ h[r].invalid = 1
        /\ h[r].evict = 1
        /\ h[r].dl = 1

\* The errors the fetch can end in.
FetchErrors ==
    {"yt-dlp failed", "yt-dlp produced empty output path", "stat: no such file"}

\* C16: when the lookup has found a video artifact that failed validation,
\* Download attempts to remove it and goes on to the download-mode fetch,
\* also when the removal failed; the request ends in what the fetch ends
\* in: an error of the fetch, or the path the fetch reported and that is
\* on disk, never the path taken from the lookup.
C16_CorruptCacheRefetched ==
    \A r \in Requests :
        h[r].invalid = 1 =>
            /\ track[r].Video
            /\ found[r] # ""
            /\ pc[r] # "evict" => h[r].evict = 1
            /\ pc[r] \in {"evict", "mkdir", "dl_start", "dl_wait", "done"}
            /\ Done(r) =>
                  /\ h[r].mkdir = 1
                  /\ h[r].dl = 1
                  /\ result[r].err \in FetchErrors \cup {"nil"}
                  /\ result[r].err = "nil" =>
                        /\ dlOut[r].exit = "ok"
                        /\ dlOut[r].stat
                        /\ result[r].loc = dlOut[r].printed

\* The removal of the invalid artifact failed and the fetch went ahead
\* and returned a fresh artifact.
C16_Witness ==
    \E r \in Requests :
        /\ h[r].invalid = 1
        /\ h[r].rmfail = 1
        /\ h[r].dl = 1
        /\ Succeeded(r)
        /\ retContent[r] = "video"

\* An audio request never probes and never removes; its lookup hit is
\* returned in the step that found it.
AudioHitReturned ==
    \A r \in Requests :
        ~track[r].Video =>
            /\ h[r].validate = 0
            /\ h[r].invalid = 0
            /\ h[r].evict = 0
            /\ found[r] # "" =>
                  /\ Done(r)
                  /\ result[r] = Ok(found[r])
                  /\ h[r].mkdir = 0
                  /\ h[r].dl = 0

\* A step that takes a file out of the directory is the eviction, by a
\* video request, of the video artifact its lookup found and its
\* validation rejected.
OnlyInvalidVideoRemoved ==
    \A p \in DOMAIN files :
        p \notin DOMAIN files' =>
            /\ files[p].owner.Video
            /\ \E r \in Requests :
                  /\ pc[r] = "evict"
                  /\ pc'[r] = "mkdir"
                  /\ found[r] = p
                  /\ track[r].Video
                  /\ h[r].invalid = 1

DirectErrors == {ds.err : ds \in {d \in DirectOutcomes : ~d.ok}}

\* C18: for a track that is not live a failed direct-stream attempt,
\* whatever made it fail, never ends the request: the request goes on to
\* the cache lookup, and what it returns in the end is never the error of
\* the direct-stream attempt.
C18_DirectFailureFallsBack ==
    \A r \in Requests :
        (~track[r].IsLive /\ h[r].nostream = 1) =>
            /\ pc[r] \in {"lookup", "validate", "evict", "mkdir", "dl_start",
                          "dl_wait", "done"}
            /\ pc[r] # "lookup" => h[r].lookup = 1
            /\ Done(r) => result[r].err \notin DirectErrors

\* A request for a non-live track ended through the cache lookup after its
\* direct-stream attempt had failed; the attempt can fail in each of the
\* three ways: the resolver exits with an error, prints no address, or
\* every address fails the probe.
C18_Witness ==
    /\ \E r \in Requests :
          /\ track[r].ID # ""
          /\ ~track[r].IsLive
          /\ h[r].nostream = 1
          /\ h[r].lookup = 1
          /\ Done(r)
    /\ \E d \in DirectOutcomes : ~d.ok /\ d.err = "yt-dlp -g failed"
    /\ \E d \in DirectOutcomes :
          ~d.ok /\ d.err = "no valid direct stream url" /\ d.probed = <<>>
    /\ \E d \in DirectOutcomes :
          ~d.ok /\ d.err = "no valid direct stream url" /\ d.probed # <<>>

\* The yt-dlp -g processes running for r.
DirectProcs(r) == {p \in procs : p.req = r /\ p.mode = "direct"}

\* One call of getDirectStreamURL runs yt-dlp -g once: one cmd.Run per
\* Download, one process at most, gone when the resolution is over, and
\* never one that writes.
OneResolverInvocation ==
    \A r \in Requests :
        /\ h[r].direct <= 1
        /\ pc[r] \notin {"idle", "meta_wait", "tracks_err", "ready"}
              => h[r].direct = 1
        /\ Cardinality(DirectProcs(r)) <= 1
        /\ pc[r] # "direct_wait" => DirectProcs(r) = {}
        /\ \A p \in DirectProcs(r) : ~p.writing

\* The steps of r's direct-stream resolution: its call and its return.
DirectStep(r) ==
    \/ pc[r] = "ready" /\ pc'[r] = "direct_wait"
    \/ pc[r] = "direct_wait" /\ pc'[r] # "direct_wait"

\* The resolution creates, changes and removes no file.
DirectLeavesDirectory ==
    \A r \in Requests :
        DirectStep(r) => files' = files /\ dirExists' = dirExists

\* C20: one direct-stream resolution invokes the external resolver exactly
\* once, whatever the candidates and the probes come to, and leaves the
\* downloads directory as it is.
C20_OneInvocationNoWrites ==
    []OneResolverInvocation /\ [][DirectLeavesDirectory]_vars

\* A resolution that failed has ended, one invocation made, with files in
\* the downloads directory.
C20_Witness ==
    \E r \in Requests :
        /\ pc[r] = "lookup"
        /\ h[r].direct = 1
        /\ h[r].nostream = 1
        /\ DOMAIN files # {}

\* Download has been called and has not returned.
InDownload(r) ==
    pc[r] \in {"direct_wait", "lookup", "validate", "evict", "mkdir",
               "dl_start", "dl_wait"}

\* At most one invocation in each mode, and a download-mode invocation
\* that failed or left no artifact ends the request with an error.
AtMostOneInvocationEach ==
    \A r \in Requests :
        /\ h[r].direct <= 1
        /\ h[r].dl <= 1
        /\ (Done(r) /\ h[r].dl = 1 /\ (dlOut[r].exit = "failed" \/ ~dlOut[r].stat))
              => result[r].err \in FetchErrors /\ result[r].loc = ""

\* C21: when every external process and probe returns, every Download that
\* has been called ends, after at most one direct-address invocation and at
\* most one download-mode invocation; a failed download-mode invocation or
\* a missing artifact ends it with an error.
C21_DownloadTerminates ==
    /\ []AtMostOneInvocationEach
    /\ \A r \in Requests : InDownload(r) ~> Done(r)

\* A request ended with an error after its one download-mode invocation
\* had failed.
C21_Witness ==
    \E r \in Requests :
        /\ Done(r)
        /\ h[r].direct = 1
        /\ h[r].dl = 1
        /\ dlOut[r].exit = "failed"
        /\ result[r] = Fail("yt-dlp failed")

\* A step of r's Download on a live track: its call, or any step up to its
\* return.
LiveStep(r) ==
    /\ track[r].IsLive
    /\ pc[r] = "ready" \/ InDownload(r)
    /\ pc'[r] # pc[r]

\* The steps of a Download on a live track leave every file and the
\* directory itself as they are.
LiveLeavesDirectory ==
    \A r \in Requests :
        LiveStep(r) => files' = files /\ dirExists' = dirExists

\* A Download on a live track never removes a file, never creates the
\* directory and never starts a download-mode invocation.
LiveNoDirectoryOps ==
    \A r \in Requests :
        track[r].IsLive =>
            /\ h[r].evict = 0
            /\ h[r].rmfail = 0
            /\ h[r].mkdir = 0
            /\ h[r].dl = 0

\* C26: a Download on a live track leaves the downloads directory exactly
\* as it found it, whether it succeeds or fails: it creates no directory
\* and no file and deletes no cached artifact, even when an artifact exists
\* under the track's cache key.
C26_LiveLeavesDirectory ==
    []LiveNoDirectoryOps /\ [][LiveLeavesDirectory]_vars

\* A Download on a live track failed with the live error while an artifact
\* was stored under the track's key.
C26_Witness ==
    \E r \in Requests :
        /\ track[r].IsLive
        /\ LiveError(r)
        /\ KeyFiles(files, track[r]) # {}

\* Download on a track that is not live was called with a context that was
\* already cancelled, and has returned.
CalledCancelled(r) == Done(r) /\ ~track[r].IsLive /\ h[r].ctxdone = 1

\* return "", err
ErrorNoLocation(res) == res.err # "nil" /\ res.loc = ""

\* cmd.Run of the download-mode invocation returns to r.
DownloadModeReturn(r) == pc[r] = "dl_wait" /\ pc'[r] = "done"

\* A cancellation that reaches the download-mode invocation ends the
\* Download with an error and no location.
CancelledDownloadFails ==
    \A r \in Requests :
        DownloadModeReturn(r) /\ ctx[r] = "cancelled"
            => ErrorNoLocation(result'[r])

\* C27 as stated: called with a cancelled context for a track that is not
\* live, or cancelled while the download-mode invocation runs, Download
\* returns an error and no location, whatever the cache holds.
C27_Original ==
    /\ [](\A r \in Requests : CalledCancelled(r) => ErrorNoLocation(result[r]))
    /\ [][CancelledDownloadFails]_vars

\* The return of the path the cache lookup found, with no download-mode
\* invocation made.
CacheHitReturned(r) ==
    /\ Succeeded(r)
    /\ h[r].lookup = 1
    /\ found[r] # ""
    /\ result[r].loc = found[r]
    /\ h[r].dl = 0

\* C27, amended: called with a cancelled context for a track that is not
\* live, Download starts no process that runs and returns an error and no
\* location unless the cache lookup finds an artifact it accepts, which it
\* returns; cancelled while the download-mode invocation runs, Download
\* returns an error and no location.
C27_CancelledFailsUnlessCacheHit ==
    /\ [](\A r \in Requests :
            CalledCancelled(r) =>
                /\ h[r].nostream = 1
                /\ ErrorNoLocation(result[r]) \/ CacheHitReturned(r))
    /\ [][CancelledDownloadFails]_vars

\* A Download called with a cancelled context found nothing in the cache,
\* went on to the download-mode invocation and returned its error.
C27_Witness ==
    \E r \in Requests :
        /\ CalledCancelled(r)
        /\ h[r].dl = 1
        /\ result[r] = Fail("yt-dlp failed")

=============================================================================
